---- MODULE Spec2Model ----
(***************************************************************************)
(* Model of src/app.py, a Streamlit script: the Session Record kept in     *)
(* st.session_state, the widgets whose values survive between script runs, *)
(* and one action per user interaction, each running the whole script.     *)
(* Texts are sequences of one-character strings; a template literal is a   *)
(* single multi-character token, so it is never confused with user text.   *)
(***************************************************************************)
EXTENDS Integers, Sequences, FiniteSets, TLC

VARIABLES
    transcribed_text,     \* st.session_state.transcribed_text
    generated_titles,     \* st.session_state.generated_titles
    manual_titles,        \* st.session_state.manual_titles
    platform_titles,      \* st.session_state.platform_titles
    text_editor,          \* widget state of st.text_area(key="text_editor")
    manual_titles_input,  \* widget state of st.text_area(key="manual_titles_input")
    video_file,           \* whether st.file_uploader holds a file
    OPENROUTER_API_KEY,   \* whether the secret is a non-empty string
    run,                  \* what the last script run did (observation only)
    fn                    \* argument/result record of a direct function call

vars == <<transcribed_text, generated_titles, manual_titles, platform_titles,
          text_editor, manual_titles_input, video_file, OPENROUTER_API_KEY,
          run, fn>>

session_vars == <<transcribed_text, generated_titles, manual_titles,
                  platform_titles, text_editor, manual_titles_input,
                  video_file, OPENROUTER_API_KEY, run>>

-----------------------------------------------------------------------------
(* Bounds and value domains *)

MaxTexts == 3

\* The texts a user types or a transcription returns, as sequences of
\* one-character strings: empty, non-blank, blank, and padded ones.
TextList ==
    << <<>>, <<"a">>, <<" ">>, <<" ", "a">>, <<"a", " ">>, <<" ", " ">>, <<"a", "a">> >>

Whitespace == {" "}

Texts == {TextList[i] : i \in 1..MaxTexts}

\* Python's None, and a key that is missing from a dict.
None == <<"None">>
Absent == <<"Absent">>

\* None in the place of the generated_titles dict.
NoneTitles == [none |-> TRUE]

\* bool(v) of a string or None.
Truthy(v) == v \notin {None, Absent, <<>>}

\* Completions the remote model can return with status 200.
Responses == {<<>>, <<"x">>}

Platforms == {"douyin", "wechat", "xiaohongshu"}

MODELS == [deepseek |-> "deepseek/deepseek-r1:free",
           mistral |-> "mistralai/mistral-7b-instruct"]

-----------------------------------------------------------------------------
(* str.strip() *)

RECURSIVE lstrip(_)
lstrip(s) ==
    IF s = <<>> THEN s
    ELSE IF Head(s) \in Whitespace THEN lstrip(Tail(s)) ELSE s

RECURSIVE rstrip(_)
rstrip(s) ==
    IF s = <<>> THEN s
    ELSE IF s[Len(s)] \in Whitespace THEN rstrip(SubSeq(s, 1, Len(s) - 1)) ELSE s

strip(s) == rstrip(lstrip(s))

\* needle occurs in hay as a contiguous run.
Contains(hay, needle) ==
    \E i \in 1..(Len(hay) + 1) :
        /\ i + Len(needle) - 1 <= Len(hay)
        /\ SubSeq(hay, i, i + Len(needle) - 1) = needle

-----------------------------------------------------------------------------
(* Generation Client *)

FailureKinds == {"non200", "exception"}

\* What the request does: a 200 with a completion, another status, or an
\* exception inside the try block (network error, timeout, unexpected body).
Outcomes ==
    [kind : {"200"}, content : Responses] \cup [kind : FailureKinds, content : {None}]

Failed(o) == o.kind \in FailureKinds

\* With an empty bearer credential the endpoint never answers 200.
OutcomesFor(key) == IF key THEN Outcomes ELSE {o \in Outcomes : Failed(o)}

\* Variant without the except clause: an exception leaves the function.
call_openrouter_api_raises(prompt, model_name, o) ==
    LET data == [model |-> MODELS[model_name], content |-> prompt, name |-> model_name,
                 outcome |-> o]
    IN  CASE o.kind = "200" ->
               [value |-> o.content, errors |-> <<>>, raised |-> FALSE, request |-> data]
          [] o.kind = "non200" ->
               [value |-> None, errors |-> <<"api_status">>, raised |-> FALSE,
                request |-> data]
          [] OTHER ->
               [value |-> None, errors |-> <<>>, raised |-> TRUE, request |-> data]

call_openrouter_api(prompt, model_name, o) ==
    LET data == [model |-> MODELS[model_name], content |-> prompt, name |-> model_name,
                 outcome |-> o]
    IN  CASE o.kind = "200" ->
               [value |-> o.content, errors |-> <<>>, raised |-> FALSE, request |-> data]
          [] o.kind = "non200" ->
               [value |-> None, errors |-> <<"api_status">>, raised |-> FALSE,
                request |-> data]
          [] OTHER ->  \* except Exception: reported, None returned
               [value |-> None, errors |-> <<"api_exception">>, raised |-> FALSE,
                request |-> data]

-----------------------------------------------------------------------------
(* Prompt Builder *)

FIELD == "{text}"

\* str.format(text=text) on a template given as a sequence of tokens.
RECURSIVE str_format(_, _)
str_format(template, text) ==
    IF template = <<>> THEN <<>>
    ELSE (IF Head(template) = FIELD THEN text ELSE <<Head(template)>>)
         \o str_format(Tail(template), text)

platform_prompts ==
    [douyin      |-> <<"douyin:head", FIELD, "douyin:tail">>,
     wechat      |-> <<"wechat:head", FIELD, "wechat:tail">>,
     xiaohongshu |-> <<"xiaohongshu:head", FIELD, "xiaohongshu:tail">>]

\* platform_prompts.get(platform, "")
platform_prompts_get(platform) ==
    IF platform \in DOMAIN platform_prompts THEN platform_prompts[platform] ELSE <<>>

\* The f-string of generate_titles.
titles_prompt(text) == <<"titles:head">> \o text \o <<"titles:tail">>

\* Variant that gives up on mistral once deepseek has returned None.
generate_titles_stops(text, o1, o2) ==
    LET prompt == titles_prompt(text)
        d == call_openrouter_api(prompt, "deepseek", o1)
        m == call_openrouter_api(prompt, "mistral", o2)
    IN  IF d.raised \/ d.value = None
        THEN [value |-> [deepseek |-> d.value, mistral |-> None],
              requests |-> <<d.request>>, errors |-> d.errors, raised |-> d.raised]
        ELSE [value |-> [deepseek |-> d.value, mistral |-> m.value],
              requests |-> <<d.request, m.request>>,
              errors |-> d.errors \o m.errors, raised |-> m.raised]

generate_titles(text, o1, o2) ==
    LET prompt == titles_prompt(text)
        d == call_openrouter_api(prompt, "deepseek", o1)
        m == call_openrouter_api(prompt, "mistral", o2)
    IN  IF d.raised  \* an exception leaving the first call skips the second
        THEN [value |-> NoneTitles, requests |-> <<d.request>>, errors |-> d.errors,
              raised |-> TRUE]
        ELSE [value |-> [deepseek |-> d.value, mistral |-> m.value],
              requests |-> <<d.request, m.request>>,
              errors |-> d.errors \o m.errors, raised |-> m.raised]

\* Variant that sends the template without formatting it.
adapt_for_platform_unformatted(text, platform, o) ==
    LET r == call_openrouter_api(platform_prompts_get(platform), "mistral", o)
    IN  [value |-> r.value, requests |-> <<r.request>>, errors |-> r.errors,
         raised |-> r.raised]

adapt_for_platform(text, platform, o) ==
    LET prompt == str_format(platform_prompts_get(platform), text)
        r == call_openrouter_api(prompt, "mistral", o)
    IN  [value |-> r.value, requests |-> <<r.request>>, errors |-> r.errors,
         raised |-> r.raised]

-----------------------------------------------------------------------------
(* Exporter *)

platform_order == <<"douyin", "wechat", "xiaohongshu">>

platform_names ==
    [douyin |-> "douyin version", wechat |-> "wechat channel version",
     xiaohongshu |-> "xiaohongshu version"]

HeaderRow == <<"content type", <<"title">>>>
TranscriptLabel == "original transcript"
ManualLabel == "manual titles"

Labels == {TranscriptLabel, ManualLabel} \cup {platform_names[p] : p \in Platforms}

RECURSIVE platform_rows(_, _)
platform_rows(keys, platform_results) ==
    IF keys = <<>> THEN <<>>
    ELSE LET k == Head(keys)
         IN  (IF platform_results[k] # Absent /\ Truthy(platform_results[k])
              THEN << <<platform_names[k], platform_results[k]>> >>
              ELSE <<>>)
             \o platform_rows(Tail(keys), platform_results)

\* Variant that tests manual_titles without strip().
create_excel_file_nonempty(original_text, manual, platform_results) ==
    <<HeaderRow, <<TranscriptLabel, original_text>>>>
    \o (IF manual # <<>> THEN << <<ManualLabel, manual>> >> ELSE <<>>)
    \o platform_rows(platform_order, platform_results)

\* The rows of the worksheet, header first.
create_excel_file(original_text, manual, platform_results) ==
    <<HeaderRow, <<TranscriptLabel, original_text>>>>
    \o (IF strip(manual) # <<>> THEN << <<ManualLabel, manual>> >> ELSE <<>>)
    \o platform_rows(platform_order, platform_results)

-----------------------------------------------------------------------------
(* Media Ingestor and Transcription Adapter *)

ExtractOutcomes == {"wav", "no_output", "exception"}

TranscribeOutcomes ==
    [kind : {"text"}, text : Texts] \cup {[kind |-> "exception", text |-> None]}

extract_audio_from_video(ex) ==
    CASE ex = "wav" -> [value |-> <<"tmp.wav">>, errors |-> <<>>]
      [] ex = "no_output" -> [value |-> None, errors |-> <<"audio_extract_failed">>]
      [] OTHER -> [value |-> None, errors |-> <<"audio_extract_error">>]

transcribe_audio(tr) ==
    IF tr.kind = "text" THEN [value |-> tr.text, errors |-> <<>>]
    ELSE [value |-> None, errors |-> <<"transcribe_error">>]

-----------------------------------------------------------------------------
(* The script, top to bottom.  A context c carries st.session_state and   *)
(* what the run has done so far.                                          *)

NoDoc == <<"NoDoc">>

Session(c) ==
    [transcribed_text |-> c.transcribed_text, generated_titles |-> c.generated_titles,
     manual_titles |-> c.manual_titles, platform_titles |-> c.platform_titles]

Halted(c) == c.raised \/ c.rerun

\* lines 292-304
transcribe_btn(c, ex, tr) ==
    IF Halted(c) \/ ~(c.video_file /\ c.click = "transcribe") THEN c
    ELSE LET a == extract_audio_from_video(ex)
             c1 == [c EXCEPT !.media = @ \o <<"extract">>, !.errors = @ \o a.errors]
         IN  IF ~Truthy(a.value) THEN c1
             ELSE LET t == transcribe_audio(tr)
                      c2 == [c1 EXCEPT !.media = @ \o <<"transcribe">>,
                                       !.errors = @ \o t.errors]
                  IN  IF Truthy(t.value)
                      THEN [c2 EXCEPT !.transcribed_text = t.value]
                      ELSE c2

\* The value st.text_area returns: the widget's own state, or the value
\* argument when the widget is rebuilt from it.
text_area_value(c, refresh) == IF refresh THEN c.transcribed_text ELSE c.text_editor

\* lines 309-329
text_editor_block(c, refresh) ==
    IF Halted(c) THEN c
    ELSE LET edited_text == text_area_value(c, refresh)
             c1 == [c EXCEPT !.text_editor = edited_text, !.edited_text = edited_text,
                             !.at_editor = c.transcribed_text]
         IN  IF edited_text = <<>> THEN c1
             ELSE LET c2 == [c1 EXCEPT !.transcribed_text = edited_text]
                  IN  IF c.click = "clear"
                      THEN [c2 EXCEPT !.transcribed_text = <<>>, !.rerun = TRUE]
                      ELSE c2

\* Variant without the API key test of line 338.
generate_btn_unchecked_key(c, o1, o2) ==
    IF Halted(c) \/ c.click # "generate" THEN c
    ELSE LET c1 == c
         IN  IF strip(c.transcribed_text) = <<>>
             THEN [c1 EXCEPT !.errors = @ \o <<"no_text">>]
             ELSE LET g == generate_titles(c.transcribed_text, o1, o2)
                      c2 == [c1 EXCEPT !.requests = @ \o g.requests,
                                       !.errors = @ \o g.errors,
                                       !.raised = g.raised]
                  IN  IF g.raised THEN c2
                      ELSE [c2 EXCEPT !.generated_titles = g.value]

\* Variant that rejects a click while a file and an editor text are both present.
generate_btn_rejects_conflict(c, o1, o2) ==
    IF Halted(c) \/ c.click # "generate" THEN c
    ELSE IF c.video_file /\ c.edited_text # <<>>
    THEN [c EXCEPT !.errors = @ \o <<"conflict">>]
    ELSE IF strip(c.transcribed_text) = <<>>
    THEN [c EXCEPT !.errors = @ \o <<"no_text">>]
    ELSE IF ~c.key
    THEN [c EXCEPT !.errors = @ \o <<"no_api_key">>]
    ELSE LET g == generate_titles(c.transcribed_text, o1, o2)
             c2 == [c EXCEPT !.requests = @ \o g.requests,
                             !.errors = @ \o g.errors,
                             !.raised = g.raised]
         IN  IF g.raised THEN c2
             ELSE [c2 EXCEPT !.generated_titles = g.value]

\* lines 334-342
generate_btn(c, o1, o2) ==
    IF Halted(c) \/ c.click # "generate" THEN c
    ELSE LET c1 == c
         IN  IF strip(c.transcribed_text) = <<>>
             THEN [c1 EXCEPT !.errors = @ \o <<"no_text">>]
             ELSE IF ~c.key
             THEN [c1 EXCEPT !.errors = @ \o <<"no_api_key">>]
             ELSE LET g == generate_titles(c.transcribed_text, o1, o2)
                      c2 == [c1 EXCEPT !.requests = @ \o g.requests,
                                       !.errors = @ \o g.errors,
                                       !.raised = g.raised]
                  IN  IF g.raised THEN c2
                      ELSE [c2 EXCEPT !.generated_titles = g.value]

\* Variant that assigns the input without testing it.
manual_titles_block_overwrites(c) ==
    IF Halted(c) THEN c
    ELSE [c EXCEPT !.manual_titles = c.manual_titles_input]

\* lines 367-374
manual_titles_block(c) ==
    IF Halted(c) \/ c.manual_titles_input = <<>> THEN c
    ELSE [c EXCEPT !.manual_titles = c.manual_titles_input]

\* Variant that stores the result without testing it.
platform_btn_stores_any(c, o) ==
    IF Halted(c) \/ c.click \notin Platforms THEN c
    ELSE LET c1 == c
         IN  IF strip(c.transcribed_text) = <<>>
             THEN [c1 EXCEPT !.errors = @ \o <<"no_text_platform">>]
             ELSE LET r == adapt_for_platform(c.transcribed_text, c.click, o)
                      c2 == [c1 EXCEPT !.requests = @ \o r.requests,
                                       !.errors = @ \o r.errors,
                                       !.raised = r.raised]
                  IN  IF r.raised THEN c2
                      ELSE [c2 EXCEPT !.platform_titles[c.click] =
                                          IF Truthy(r.value) THEN r.value ELSE Absent]

\* Variant that rebuilds platform_titles from the one result.
platform_btn_replaces_dict(c, o) ==
    IF Halted(c) \/ c.click \notin Platforms THEN c
    ELSE LET c1 == c
         IN  IF strip(c.transcribed_text) = <<>>
             THEN [c1 EXCEPT !.errors = @ \o <<"no_text_platform">>]
             ELSE LET r == adapt_for_platform(c.transcribed_text, c.click, o)
                      c2 == [c1 EXCEPT !.requests = @ \o r.requests,
                                       !.errors = @ \o r.errors,
                                       !.raised = r.raised]
                  IN  IF r.raised \/ ~Truthy(r.value) THEN c2
                      ELSE [c2 EXCEPT !.platform_titles =
                               [p \in Platforms |-> IF p = c.click THEN r.value ELSE Absent]]

\* Variant without the transcript test.
platform_btn_unchecked_text(c, o) ==
    IF Halted(c) \/ c.click \notin Platforms THEN c
    ELSE LET c1 == c
             r == adapt_for_platform(c.transcribed_text, c.click, o)
             c2 == [c1 EXCEPT !.requests = @ \o r.requests,
                              !.errors = @ \o r.errors,
                              !.raised = r.raised]
         IN  IF r.raised \/ ~Truthy(r.value) THEN c2
             ELSE [c2 EXCEPT !.platform_titles[c.click] = r.value]

\* lines 379-409, the three buttons differing only in the platform key
platform_btn(c, o) ==
    IF Halted(c) \/ c.click \notin Platforms THEN c
    ELSE LET c1 == c
         IN  IF strip(c.transcribed_text) = <<>>
             THEN [c1 EXCEPT !.errors = @ \o <<"no_text_platform">>]
             ELSE LET r == adapt_for_platform(c.transcribed_text, c.click, o)
                      c2 == [c1 EXCEPT !.requests = @ \o r.requests,
                                       !.errors = @ \o r.errors,
                                       !.raised = r.raised]
                  IN  IF r.raised \/ ~Truthy(r.value) THEN c2
                      ELSE [c2 EXCEPT !.platform_titles[c.click] = r.value]

\* lines 435-450
export_btn(c) ==
    IF Halted(c) \/ c.click # "export" THEN c
    ELSE LET c1 == c
         IN  IF strip(c.transcribed_text) = <<>>
             THEN [c1 EXCEPT !.errors = @ \o <<"no_transcript">>]
             ELSE [c1 EXCEPT !.export = create_excel_file(c.transcribed_text,
                                            c.manual_titles, c.platform_titles)]

\* One pass over the script.
script_pass(c, refresh, ex, tr, o1, o2) ==
    export_btn(
      platform_btn(
        manual_titles_block(
          generate_btn(
            text_editor_block(
              transcribe_btn(c, ex, tr), refresh), o1, o2)), o1))

\* A script run; st.rerun() (line 326) abandons the pass and starts another,
\* in which no button is pressed.
script(c, refresh, refresh2, ex, tr, o1, o2) ==
    LET p == script_pass(c, refresh, ex, tr, o1, o2)
    IN  IF p.rerun /\ ~p.raised
        THEN script_pass([p EXCEPT !.rerun = FALSE, !.click = "none"],
                         refresh2, ex, tr, o1, o2)
        ELSE p

-----------------------------------------------------------------------------
(* Session: initial state (lines 46-57) and one action per interaction *)

NoOutcome == [kind |-> "exception", content |-> None]
NoTranscript == [kind |-> "exception", text |-> None]

InitSession ==
    /\ transcribed_text = <<>>
    /\ generated_titles = NoneTitles
    /\ manual_titles = <<>>
    /\ platform_titles = [p \in Platforms |-> Absent]
    /\ text_editor = <<>>
    /\ manual_titles_input = <<>>
    /\ video_file = FALSE
    /\ run = [action |-> "start", edited_text |-> <<>>, at_editor |-> <<>>,
              requests |-> <<>>, media |-> <<>>, errors |-> <<>>,
              raised |-> FALSE, export |-> NoDoc]

Init ==
    /\ InitSession
    /\ OPENROUTER_API_KEY \in BOOLEAN
    /\ fn = [name |-> "none"]

\* The context a script run starts from: st.session_state, the widgets, the
\* button pressed, and nothing done yet.
NewCtx(sess, action, click, file, editor, manual_input, key) ==
    [transcribed_text |-> sess.transcribed_text,
     generated_titles |-> sess.generated_titles,
     manual_titles |-> sess.manual_titles, platform_titles |-> sess.platform_titles,
     text_editor |-> editor, manual_titles_input |-> manual_input,
     video_file |-> file, key |-> key,
     action |-> action, click |-> click,
     edited_text |-> <<>>, at_editor |-> sess.transcribed_text,
     requests |-> <<>>, media |-> <<>>, errors |-> <<>>,
     raised |-> FALSE, rerun |-> FALSE, export |-> NoDoc]

session_state ==
    [transcribed_text |-> transcribed_text, generated_titles |-> generated_titles,
     manual_titles |-> manual_titles, platform_titles |-> platform_titles]

Ctx(action, click, file, editor, manual_input) ==
    NewCtx(session_state, action, click, file, editor, manual_input, OPENROUTER_API_KEY)

\* st.session_state and the widgets after the run, and what the run did.
Commit(c) ==
    /\ transcribed_text' = c.transcribed_text
    /\ generated_titles' = c.generated_titles
    /\ manual_titles' = c.manual_titles
    /\ platform_titles' = c.platform_titles
    /\ text_editor' = c.text_editor
    /\ manual_titles_input' = c.manual_titles_input
    /\ video_file' = c.video_file
    /\ run' = [action |-> c.action, edited_text |-> c.edited_text,
               at_editor |-> c.at_editor,
               requests |-> c.requests, media |-> c.media, errors |-> c.errors,
               raised |-> c.raised, export |-> c.export]
    /\ UNCHANGED <<OPENROUTER_API_KEY, fn>>

\* A run in which no external service is called.
Quiet(c, refresh, refresh2) ==
    script(c, refresh, refresh2, "exception", NoTranscript, NoOutcome, NoOutcome)

\* The user commits a new text in the editor.
EditText ==
    \E t \in Texts :
        /\ t # text_editor
        /\ Commit(Quiet(Ctx("edit_text", "none", video_file, t, manual_titles_input),
                        FALSE, FALSE))

\* The user commits a new text in the manual-titles input.
EditManualTitles ==
    \E m \in Texts :
        /\ m # manual_titles_input
        /\ Commit(Quiet(Ctx("edit_manual", "none", video_file, text_editor, m),
                        FALSE, FALSE))

UploadFile ==
    /\ ~video_file
    /\ Commit(Quiet(Ctx("upload", "none", TRUE, text_editor, manual_titles_input),
                    FALSE, FALSE))

RemoveFile ==
    /\ video_file
    /\ Commit(Quiet(Ctx("remove", "none", FALSE, text_editor, manual_titles_input),
                    FALSE, FALSE))

ClickTranscribe ==
    /\ video_file
    /\ \E refresh \in BOOLEAN, ex \in ExtractOutcomes, tr \in TranscribeOutcomes :
          /\ refresh => (ex = "wav" /\ Truthy(tr.text))
          /\ Commit(script(Ctx("transcribe", "transcribe", video_file, text_editor,
                            manual_titles_input),
                        refresh, FALSE, ex, tr, NoOutcome, NoOutcome))

ClickCopy ==
    Commit(Quiet(Ctx("copy", "copy", video_file, text_editor, manual_titles_input),
                 FALSE, FALSE))

ClickClear ==
    \E refresh2 \in BOOLEAN :
        Commit(Quiet(Ctx("clear", "clear", video_file, text_editor, manual_titles_input),
                     FALSE, refresh2))

ClickAutoTidy ==
    Commit(Quiet(Ctx("auto", "auto", video_file, text_editor, manual_titles_input),
                 FALSE, FALSE))

ClickGenerate ==
    \E o1 \in OutcomesFor(OPENROUTER_API_KEY), o2 \in OutcomesFor(OPENROUTER_API_KEY) :
        Commit(script(Ctx("generate", "generate", video_file, text_editor,
                          manual_titles_input),
                      FALSE, FALSE, "exception", NoTranscript, o1, o2))

ClickPlatform ==
    \E p \in Platforms, o \in OutcomesFor(OPENROUTER_API_KEY) :
        Commit(script(Ctx(p, p, video_file, text_editor, manual_titles_input),
                      FALSE, FALSE, "exception", NoTranscript, o, o))

ClickExport ==
    Commit(Quiet(Ctx("export", "export", video_file, text_editor, manual_titles_input),
                 FALSE, FALSE))

Next ==
    \/ EditText
    \/ EditManualTitles
    \/ UploadFile
    \/ RemoveFile
    \/ ClickTranscribe
    \/ ClickCopy
    \/ ClickClear
    \/ ClickAutoTidy
    \/ ClickGenerate
    \/ ClickPlatform
    \/ ClickExport

Spec == Init /\ [][Next]_vars

-----------------------------------------------------------------------------
(* Direct calls of the pure functions on arguments drawn from the bounds *)

PlatformResults == [Platforms -> {Absent} \cup Texts]

FnCalls ==
    [name : {"create_excel_file"}, text : Texts, manual : Texts,
     platform_results : PlatformResults, platform : {"none"},
     o1 : {NoOutcome}, o2 : {NoOutcome}, done : {FALSE}, result : {NoDoc}]
    \cup
    [name : {"generate_titles"}, text : Texts, manual : {<<>>},
     platform_results : {[p \in Platforms |-> Absent]}, platform : {"none"},
     o1 : Outcomes, o2 : Outcomes, done : {FALSE}, result : {NoDoc}]
    \cup
    [name : {"adapt_for_platform"}, text : Texts, manual : {<<>>},
     platform_results : {[p \in Platforms |-> Absent]}, platform : Platforms,
     o1 : Outcomes, o2 : {NoOutcome}, done : {FALSE}, result : {NoDoc}]

InitFn ==
    /\ InitSession
    /\ OPENROUTER_API_KEY = TRUE
    /\ fn \in FnCalls

CallCreateExcelFile ==
    /\ fn.name = "create_excel_file" /\ ~fn.done
    /\ fn' = [fn EXCEPT !.done = TRUE,
                        !.result = create_excel_file(fn.text, fn.manual,
                                                     fn.platform_results)]
    /\ UNCHANGED session_vars

CallGenerateTitles ==
    /\ fn.name = "generate_titles" /\ ~fn.done
    /\ fn' = [fn EXCEPT !.done = TRUE,
                        !.result = generate_titles(fn.text, fn.o1, fn.o2)]
    /\ UNCHANGED session_vars

CallAdaptForPlatform ==
    /\ fn.name = "adapt_for_platform" /\ ~fn.done
    /\ fn' = [fn EXCEPT !.done = TRUE,
                        !.result = adapt_for_platform(fn.text, fn.platform, fn.o1)]
    /\ UNCHANGED session_vars

NextFn ==
    \/ CallCreateExcelFile
    \/ CallGenerateTitles
    \/ CallAdaptForPlatform

SpecFn == InitFn /\ [][NextFn]_vars

-----------------------------------------------------------------------------
(* Properties *)

Blank(t) == strip(t) = <<>>

RequestFailed(i) == Failed(run.requests[i].outcome)

FailedRequests == {i \in DOMAIN run.requests : RequestFailed(i)}

NonEmptyPlatforms(platform_results) ==
    {p \in Platforms : Truthy(platform_results[p])}

ExcelDone == fn.name = "create_excel_file" /\ fn.done

ColumnA(rows) == {rows[i][1] : i \in 2..Len(rows)}

\* C1 (as amended): create_excel_file writes, below the header, one transcript
\* row, one manual-titles row exactly when manual_titles has a non-whitespace
\* character, and one row per platform whose entry is a non-empty text; every
\* column-A value is one of the fixed labels; with manual_titles = "" and
\* only douyin filled there are exactly 2 rows and no manual-titles row.
C1_ExportRows ==
    ExcelDone =>
        /\ Len(fn.result) - 1 =
              1 + (IF Blank(fn.manual) THEN 0 ELSE 1)
                + Cardinality(NonEmptyPlatforms(fn.platform_results))
        /\ fn.result[1] = HeaderRow
        /\ ColumnA(fn.result) \subseteq Labels
        /\ (fn.manual = <<>> /\ NonEmptyPlatforms(fn.platform_results) = {"douyin"})
              => /\ Len(fn.result) - 1 = 2
                 /\ ManualLabel \notin ColumnA(fn.result)

\* C1 as stated: the manual-titles row is counted whenever manual_titles is
\* a non-empty string.
C1_Original ==
    ExcelDone =>
        /\ Len(fn.result) - 1 =
              1 + (IF fn.manual = <<>> THEN 0 ELSE 1)
                + Cardinality(NonEmptyPlatforms(fn.platform_results))
        /\ ColumnA(fn.result) \subseteq Labels

C1_Witness ==
    /\ ExcelDone
    /\ fn.manual = <<" ">>
    /\ NonEmptyPlatforms(fn.platform_results) = {"douyin"}
    /\ Len(fn.result) - 1 = 2

\* C2 (as amended): a failed Generation Client call never raises past
\* call_openrouter_api; a failed platform-p action leaves platform_titles[p]
\* as it was before the action, and after a generate-titles action the
\* generated_titles entry of every model whose call failed is None.
C2_FailureKeepsField ==
    [][\A i \in DOMAIN run'.requests :
          Failed(run'.requests[i].outcome) =>
             /\ ~run'.raised
             /\ run'.action \in Platforms =>
                   platform_titles'[run'.action] = platform_titles[run'.action]
             /\ run'.action = "generate" =>
                   generated_titles'[run'.requests[i].name] = None]_vars

\* C2 as stated: after any failed call the field the action writes is unset.
C2_Original ==
    \A i \in FailedRequests :
        /\ ~run.raised
        /\ run.action \in Platforms => platform_titles[run.action] = Absent
        /\ run.action = "generate" => generated_titles[run.requests[i].name] = None

C2_Witness ==
    /\ run.action = "douyin"
    /\ FailedRequests # {}
    /\ Truthy(platform_titles["douyin"])

GuardedActions == {"generate", "export"} \cup Platforms

RejectionOf(action) ==
    CASE action = "generate" -> "no_text"
      [] action = "export" -> "no_transcript"
      [] OTHER -> "no_text_platform"

\* C3: a generate, platform or export action triggered while the transcript is
\* empty or whitespace-only reports its error, makes no generation call,
\* produces no export document and changes no Session Record field.
C3_BlankTranscriptRejected ==
    [][(run'.action \in GuardedActions /\ Blank(transcribed_text)) =>
          /\ run'.errors = <<RejectionOf(run'.action)>>
          /\ run'.requests = <<>>
          /\ run'.export = NoDoc
          /\ session_state' = session_state]_vars

C3_Witness ==
    /\ run.action = "wechat"
    /\ transcribed_text = <<" ">>
    /\ run.errors = <<"no_text_platform">>

BothInputs == video_file /\ run.edited_text # <<>>

TitlesDone == fn.name = "generate_titles" /\ fn.done

OwnResponse(o) == IF Failed(o) THEN None ELSE o.content

\* C6: generate_titles issues exactly one call per model whatever the other
\* call does, and each model's stored value is its own response, or None on
\* its own failure.
C6_IndependentCalls ==
    TitlesDone =>
        /\ ~fn.result.raised
        /\ Len(fn.result.requests) = 2
        /\ {fn.result.requests[i].name : i \in 1..2} = {"deepseek", "mistral"}
        /\ \A i \in 1..2 : fn.result.requests[i].model = MODELS[fn.result.requests[i].name]
        /\ fn.result.value.deepseek = OwnResponse(fn.o1)
        /\ fn.result.value.mistral = OwnResponse(fn.o2)

C6_Witness ==
    /\ TitlesDone
    /\ fn.o1.kind = "exception"
    /\ fn.result.value.deepseek = None
    /\ fn.result.value.mistral = <<"x">>

PromptDone == fn.name \in {"generate_titles", "adapt_for_platform"} /\ fn.done

Selector == IF fn.name = "generate_titles" THEN "titles" ELSE fn.platform

SelectorHeads ==
    [titles |-> "titles:head", douyin |-> "douyin:head", wechat |-> "wechat:head",
     xiaohongshu |-> "xiaohongshu:head"]

\* C7: for the title prompt and each platform prompt, and every non-empty
\* content text, the prompt is non-empty, holds the text verbatim as one
\* contiguous run between the selector's own instructions, and is the
\* content of every request sent.
C7_PromptHoldsText ==
    (PromptDone /\ fn.text # <<>>) =>
        /\ fn.result.requests # <<>>
        /\ \A i \in DOMAIN fn.result.requests :
              LET prompt == fn.result.requests[i].content
              IN  /\ prompt # <<>>
                  /\ Contains(prompt, fn.text)
                  /\ Len(prompt) = Len(fn.text) + 2
                  /\ prompt[1] = SelectorHeads[Selector]
                  /\ SubSeq(prompt, 2, Len(prompt) - 1) = fn.text

C7_Witness ==
    /\ PromptDone
    /\ fn.name = "adapt_for_platform"
    /\ fn.platform = "xiaohongshu"
    /\ fn.text = <<" ">>
    /\ fn.result.requests[1].content = <<"xiaohongshu:head", " ", "xiaohongshu:tail">>

\* The Session Record after the platform handler alone has run.
AfterPlatform(sess, p, o) ==
    Session(platform_btn(NewCtx(sess, p, p, FALSE, <<>>, <<>>, TRUE), o))

\* From a state a platform action has just left, that platform's action and
\* another platform's give the same Session Record in either order.
PlatformsCommute ==
    run.action \in Platforms =>
        \A q \in Platforms \ {run.action}, o1 \in Outcomes, o2 \in Outcomes :
            AfterPlatform(AfterPlatform(session_state, run.action, o1), q, o2)
              = AfterPlatform(AfterPlatform(session_state, q, o2), run.action, o1)

OwnFieldOnly ==
    /\ run'.action = "transcribe" =>
          UNCHANGED <<generated_titles, manual_titles, platform_titles>>
    /\ run'.action = "generate" =>
          UNCHANGED <<transcribed_text, manual_titles, platform_titles>>
    /\ run'.action \in Platforms =>
          /\ UNCHANGED <<transcribed_text, generated_titles, manual_titles>>
          /\ \A q \in Platforms \ {run'.action} :
                platform_titles'[q] = platform_titles[q]
    /\ run'.action = "export" => session_state' = session_state

\* C8: the transcribe action changes at most the transcript, the generate
\* action at most generated_titles, the platform-p action at most
\* platform_titles[p], the export action nothing; two platform actions for
\* different platforms give the same Session Record in either order.
C8_OwnFieldOnly == [][OwnFieldOnly]_vars /\ []PlatformsCommute

C8_Witness ==
    /\ run.action = "wechat"
    /\ Truthy(platform_titles["wechat"])
    /\ Truthy(platform_titles["douyin"])
    /\ generated_titles # NoneTitles
    /\ manual_titles # <<>>

\* C9: a platform entry that holds a non-empty text holds a non-empty text
\* ever after, and a generate-titles action whose two calls both fail leaves
\* generated_titles with both model entries None.
C9_PlatformTitlesKept ==
    [][/\ \A p \in Platforms :
             Truthy(platform_titles[p]) => Truthy(platform_titles'[p])
       /\ (run'.action = "generate" /\ Len(run'.requests) = 2
             /\ \A i \in 1..2 : Failed(run'.requests[i].outcome))
            => generated_titles' = [deepseek |-> None, mistral |-> None]]_vars

C9_Witness ==
    /\ run.action = "xiaohongshu"
    /\ FailedRequests = {1}
    /\ platform_titles["xiaohongshu"] = <<"x">>

====
